---- MODULE Spec2Model ----
(***************************************************************************)
(* Model of rdy2cpl/grids/base/orca.py: the ORCA grid reader.              *)
(*                                                                         *)
(* Arrays are functions: a 2D array of shape (ni, nj) has domain           *)
(* (0..ni-1) \X (0..nj-1) and a corner array has domain                    *)
(* (0..ni-1) \X (0..nj-1) \X (0..3).  Array values are integers, so that   *)
(* the linear extrapolation 2*a - b is computed exactly.                   *)
(*                                                                         *)
(* Spec      the three array-producing methods of OrcaGrid applied to a    *)
(*           dataset of a small shape.                                     *)
(* SpecView  the construction of a subgrid view (OrcaTGrid, OrcaUGrid,     *)
(*           OrcaVGrid) statement by statement, on a dataset that may lack *)
(*           dimensions or variables or have unregistered dimensions.      *)
(***************************************************************************)
EXTENDS Integers, FiniteSets, Sequences, TLC

VARIABLES
    shape,        \* OrcaGrid.shape, the pair (ni, nj)
    size,         \* OrcaGrid.size
    name,         \* OrcaGrid.name
    subgrid,      \* the subgrid tag the methods are called with
    data,         \* nc.variables[...][0, ...].data.T, the array a method reads
    corner_lats,  \* what read_corner_latitudes returned (Unset before the call)
    corner_lons,  \* what read_corner_longitudes returned
    mask,         \* what read_mask returned
    nc,           \* the domain_cfg dataset: its dimensions and variable names
    masks,        \* the masks argument and, when given, that file's variables
    pc,           \* position in the view's constructor
    self,         \* the view object under construction
    result,       \* what the constructor call gave its caller
    error,        \* the exception that reached the caller
    reads         \* the dataset variables whose arrays were read, in order

vars == <<shape, size, name, subgrid, data, corner_lats, corner_lons, mask,
          nc, masks, pc, self, result, error, reads>>

\* Bounds of the model.
MaxNi == 3
MaxNj == 3
MaxVal == 1
MaxHot == 2
MaxMissing == 1

\* The variables of a complete NEMO domain_cfg file and of a complete masks
\* file; a dataset of the model lacks at most MaxMissing of them.
NemoDomainCfg == {"glamt", "glamu", "glamv", "glamf",
                  "gphit", "gphiu", "gphiv", "gphif",
                  "e1t", "e1u", "e1v", "e1f",
                  "e2t", "e2u", "e2v", "e2f", "top_level"}
NemoMasks == {"tmaskutil", "umaskutil", "vmaskutil"}

\* _MISSING_VALUE = 1e20, represented by an integer no coordinate of the
\* model and no extrapolation of two of them can take.
MISSING_VALUE == 1000000000

Unset == <<>>
None == "None"

\* masks=None, and a masks file holding the variables vs.
NoMasks == [given |-> FALSE, variables |-> {}]
MasksFile(vs) == [given |-> TRUE, variables |-> vs]

\* A view object before any attribute is set.
NewView == [name |-> None, shape |-> <<>>, size |-> 0,
            center_latitudes |-> None, center_longitudes |-> None,
            corner_latitudes |-> None, corner_longitudes |-> None,
            areas |-> None, mask |-> None]

\* _check(subgrid): the tags that do not raise ValueError.
Subgrids == {"t", "u", "v"}

Shapes == (2..MaxNi) \X (3..MaxNj)

Cells(shp) == (0..(shp[1] - 1)) \X (0..(shp[2] - 1))

\* The arrays a dataset variable may hold: zero except in at most MaxHot cells.
Fields(shp) ==
    UNION { { [c \in Cells(shp) |-> IF c \in H THEN h[c] ELSE 0] :
                h \in [H -> 1..MaxVal] } :
            H \in { S \in SUBSET Cells(shp) : Cardinality(S) <= MaxHot } }

\* np.full((*self.shape, 4), fill)
full(shp, fill) ==
    [x \in (0..(shp[1] - 1)) \X (0..(shp[2] - 1)) \X (0..3) |-> fill]

\* A slice assignment  a[region] = ... : the entries of the region, the
\* domain of new, are overwritten, the others keep their value.
Assign(a, new) == [x \in DOMAIN a |-> IF x \in DOMAIN new THEN new[x] ELSE a[x]]

(***************************************************************************)
(* The branches of read_corner_latitudes, one operator per branch.  Each   *)
(* c<n> is the corner array after the statement quoted above it.           *)
(***************************************************************************)
corner_lats_t(lat_values, shp) ==
    LET ni == shp[1]
        c0 == full(shp, MISSING_VALUE)
        \* corner_lats[:, :, 0] = lat_values
        c1 == Assign(c0,
            [x \in {y \in DOMAIN c0 : y[3] = 0} |->
                lat_values[<<x[1], x[2]>>]])
        \* corner_lats[1:, :, 1] = lat_values[:-1, :]
        c2 == Assign(c1,
            [x \in {y \in DOMAIN c1 : y[3] = 1 /\ y[1] >= 1} |->
                lat_values[<<x[1] - 1, x[2]>>]])
        \* corner_lats[0, :, 1] = lat_values[-1, :]
        c3 == Assign(c2,
            [x \in {y \in DOMAIN c2 : y[3] = 1 /\ y[1] = 0} |->
                lat_values[<<ni - 1, x[2]>>]])
        \* corner_lats[:, 1:, 3] = lat_values[:, :-1]
        c4 == Assign(c3,
            [x \in {y \in DOMAIN c3 : y[3] = 3 /\ y[2] >= 1} |->
                lat_values[<<x[1], x[2] - 1>>]])
        \* corner_lats[:, 0, 3] = 2 * lat_values[:, 1] - lat_values[:, 2]
        c5 == Assign(c4,
            [x \in {y \in DOMAIN c4 : y[3] = 3 /\ y[2] = 0} |->
                2 * lat_values[<<x[1], 1>>]
                       - lat_values[<<x[1], 2>>]])
        \* corner_lats[1:, 1:, 2] = lat_values[:-1, :-1]
        c6 == Assign(c5,
            [x \in {y \in DOMAIN c5 : y[3] = 2 /\ y[1] >= 1 /\ y[2] >= 1} |->
                lat_values[<<x[1] - 1, x[2] - 1>>]])
        \* corner_lats[0, 1:, 2] = lat_values[-1, :-1]
        c7 == Assign(c6,
            [x \in {y \in DOMAIN c6 : y[3] = 2 /\ y[1] = 0 /\ y[2] >= 1} |->
                lat_values[<<ni - 1, x[2] - 1>>]])
        \* corner_lats[1:, 0, 2] = 2 * lat_values[:-1, 1] - lat_values[:-1, 2]
        c8 == Assign(c7,
            [x \in {y \in DOMAIN c7 : y[3] = 2 /\ y[1] >= 1 /\ y[2] = 0} |->
                2 * lat_values[<<x[1] - 1, 1>>]
                       - lat_values[<<x[1] - 1, 2>>]])
        \* corner_lats[0, 0, 2] = 2 * lat_values[-1, 1] - lat_values[-1, 2]
        c9 == Assign(c8,
            [x \in {y \in DOMAIN c8 : y[3] = 2 /\ y[1] = 0 /\ y[2] = 0} |->
                2 * lat_values[<<ni - 1, 1>>]
                       - lat_values[<<ni - 1, 2>>]])
    IN  c9

corner_lats_u(lat_values, shp) ==
    LET ni == shp[1]
        c0 == full(shp, MISSING_VALUE)
        \* corner_lats[:, :, 1] = lat_values
        c1 == Assign(c0,
            [x \in {y \in DOMAIN c0 : y[3] = 1} |->
                lat_values[<<x[1], x[2]>>]])
        \* corner_lats[:-1, :, 0] = lat_values[1:, :]
        c2 == Assign(c1,
            [x \in {y \in DOMAIN c1 : y[3] = 0 /\ y[1] <= ni - 2} |->
                lat_values[<<x[1] + 1, x[2]>>]])
        \* corner_lats[-1, :, 0] = lat_values[0, :]
        c3 == Assign(c2,
            [x \in {y \in DOMAIN c2 : y[3] = 0 /\ y[1] = ni - 1} |->
                lat_values[<<0, x[2]>>]])
        \* corner_lats[:, 1:, 2] = lat_values[:, :-1]
        c4 == Assign(c3,
            [x \in {y \in DOMAIN c3 : y[3] = 2 /\ y[2] >= 1} |->
                lat_values[<<x[1], x[2] - 1>>]])
        \* corner_lats[:, 0, 2] = 2 * lat_values[:, 1] - lat_values[:, 2]
        c5 == Assign(c4,
            [x \in {y \in DOMAIN c4 : y[3] = 2 /\ y[2] = 0} |->
                2 * lat_values[<<x[1], 1>>]
                       - lat_values[<<x[1], 2>>]])
        \* corner_lats[:-1, 1:, 3] = lat_values[1:, :-1]
        c6 == Assign(c5,
            [x \in {y \in DOMAIN c5 : y[3] = 3 /\ y[1] <= ni - 2 /\ y[2] >= 1} |->
                lat_values[<<x[1] + 1, x[2] - 1>>]])
        \* corner_lats[-1, 1:, 3] = lat_values[0, :-1]
        c7 == Assign(c6,
            [x \in {y \in DOMAIN c6 : y[3] = 3 /\ y[1] = ni - 1 /\ y[2] >= 1} |->
                lat_values[<<0, x[2] - 1>>]])
        \* corner_lats[:-1, 0, 3] = 2 * lat_values[1:, 1] - lat_values[1:, 2]
        c8 == Assign(c7,
            [x \in {y \in DOMAIN c7 : y[3] = 3 /\ y[1] <= ni - 2 /\ y[2] = 0} |->
                2 * lat_values[<<x[1] + 1, 1>>]
                       - lat_values[<<x[1] + 1, 2>>]])
        \* corner_lats[-1, 0, 3] = 2 * lat_values[0, 1] - lat_values[0, 2]
        c9 == Assign(c8,
            [x \in {y \in DOMAIN c8 : y[3] = 3 /\ y[1] = ni - 1 /\ y[2] = 0} |->
                2 * lat_values[<<0, 1>>]
                       - lat_values[<<0, 2>>]])
    IN  c9

\* Variant: values[::-1, 0], the first j-row reversed.
rever_first_row(values, shp) ==
    [i \in 0..(shp[1] - 1) |-> values[<<shp[1] - 1 - i, 0>>]]

\* Variant: values[:, -1], the last j-row in its own order.
rever_forward(values, shp) ==
    [i \in 0..(shp[1] - 1) |-> values[<<i, shp[2] - 1>>]]

\* values[::-1, -1]: the last j-row, read in reverse i-order.
rever(values, shp) ==
    [i \in 0..(shp[1] - 1) |-> values[<<shp[1] - 1 - i, shp[2] - 1>>]]

\* The "v" branch: F-pivot special treatment.
corner_lats_v(lat_values, shp) ==
    LET ni == shp[1]
        nj == shp[2]
        \* rever_lats = lat_values[::-1, -1]
        rever_lats == rever(lat_values, shp)
        c0 == full(shp, MISSING_VALUE)
        \* corner_lats[:, :-1, 0] = lat_values[:, 1:]
        c1 == Assign(c0,
            [x \in {y \in DOMAIN c0 : y[3] = 0 /\ y[2] <= nj - 2} |->
                lat_values[<<x[1], x[2] + 1>>]])
        \* corner_lats[:-1, -1, 0] = rever_lats[1:]
        c2 == Assign(c1,
            [x \in {y \in DOMAIN c1 : y[3] = 0 /\ y[1] <= ni - 2 /\ y[2] = nj - 1} |->
                rever_lats[x[1] + 1]])
        \* corner_lats[-1, -1, 0] = rever_lats[0]
        c3 == Assign(c2,
            [x \in {y \in DOMAIN c2 : y[3] = 0 /\ y[1] = ni - 1 /\ y[2] = nj - 1} |->
                rever_lats[0]])
        \* corner_lats[1:, :-1, 1] = lat_values[:-1, 1:]
        c4 == Assign(c3,
            [x \in {y \in DOMAIN c3 : y[3] = 1 /\ y[1] >= 1 /\ y[2] <= nj - 2} |->
                lat_values[<<x[1] - 1, x[2] + 1>>]])
        \* corner_lats[0, :-1, 1] = lat_values[-1, 1:]
        c5 == Assign(c4,
            [x \in {y \in DOMAIN c4 : y[3] = 1 /\ y[1] = 0 /\ y[2] <= nj - 2} |->
                lat_values[<<ni - 1, x[2] + 1>>]])
        \* corner_lats[:, -1, 1] = rever_lats[:]
        c6 == Assign(c5,
            [x \in {y \in DOMAIN c5 : y[3] = 1 /\ y[2] = nj - 1} |->
                rever_lats[x[1]]])
        \* corner_lats[1:, :, 2] = lat_values[:-1, :]
        c7 == Assign(c6,
            [x \in {y \in DOMAIN c6 : y[3] = 2 /\ y[1] >= 1} |->
                lat_values[<<x[1] - 1, x[2]>>]])
        \* corner_lats[0, :, 2] = lat_values[-1, :]
        c8 == Assign(c7,
            [x \in {y \in DOMAIN c7 : y[3] = 2 /\ y[1] = 0} |->
                lat_values[<<ni - 1, x[2]>>]])
        \* corner_lats[:, :, 3] = lat_values
        c9 == Assign(c8,
            [x \in {y \in DOMAIN c8 : y[3] = 3} |->
                lat_values[<<x[1], x[2]>>]])
    IN  c9

(***************************************************************************)
(* The branches of read_corner_longitudes.                                 *)
(***************************************************************************)
corner_lons_t(lon_values, shp) ==
    LET ni == shp[1]
        c0 == full(shp, MISSING_VALUE)
        \* corner_lons[:, :, 0] = lon_values
        c1 == Assign(c0,
            [x \in {y \in DOMAIN c0 : y[3] = 0} |->
                lon_values[<<x[1], x[2]>>]])
        \* corner_lons[1:, :, 1] = lon_values[:-1, :]
        c2 == Assign(c1,
            [x \in {y \in DOMAIN c1 : y[3] = 1 /\ y[1] >= 1} |->
                lon_values[<<x[1] - 1, x[2]>>]])
        \* corner_lons[0, :, 1] = lon_values[-1, :]
        c3 == Assign(c2,
            [x \in {y \in DOMAIN c2 : y[3] = 1 /\ y[1] = 0} |->
                lon_values[<<ni - 1, x[2]>>]])
        \* corner_lons[:, 1:, 3] = lon_values[:, :-1]
        c4 == Assign(c3,
            [x \in {y \in DOMAIN c3 : y[3] = 3 /\ y[2] >= 1} |->
                lon_values[<<x[1], x[2] - 1>>]])
        \* corner_lons[:, 0, 3] = lon_values[:, 1]
        c5 == Assign(c4,
            [x \in {y \in DOMAIN c4 : y[3] = 3 /\ y[2] = 0} |->
                lon_values[<<x[1], 1>>]])
        \* corner_lons[1:, 1:, 2] = lon_values[:-1, :-1]
        c6 == Assign(c5,
            [x \in {y \in DOMAIN c5 : y[3] = 2 /\ y[1] >= 1 /\ y[2] >= 1} |->
                lon_values[<<x[1] - 1, x[2] - 1>>]])
        \* corner_lons[0, 1:, 2] = lon_values[-1, :-1]
        c7 == Assign(c6,
            [x \in {y \in DOMAIN c6 : y[3] = 2 /\ y[1] = 0 /\ y[2] >= 1} |->
                lon_values[<<ni - 1, x[2] - 1>>]])
        \* corner_lons[1:, 0, 2] = lon_values[:-1, 1]
        c8 == Assign(c7,
            [x \in {y \in DOMAIN c7 : y[3] = 2 /\ y[1] >= 1 /\ y[2] = 0} |->
                lon_values[<<x[1] - 1, 1>>]])
        \* corner_lons[0, 0, 2] = lon_values[-1, 1]
        c9 == Assign(c8,
            [x \in {y \in DOMAIN c8 : y[3] = 2 /\ y[1] = 0 /\ y[2] = 0} |->
                lon_values[<<ni - 1, 1>>]])
    IN  c9

corner_lons_u(lon_values, shp) ==
    LET ni == shp[1]
        c0 == full(shp, MISSING_VALUE)
        \* corner_lons[:, :, 1] = lon_values
        c1 == Assign(c0,
            [x \in {y \in DOMAIN c0 : y[3] = 1} |->
                lon_values[<<x[1], x[2]>>]])
        \* corner_lons[:-1, :, 0] = lon_values[1:, :]
        c2 == Assign(c1,
            [x \in {y \in DOMAIN c1 : y[3] = 0 /\ y[1] <= ni - 2} |->
                lon_values[<<x[1] + 1, x[2]>>]])
        \* corner_lons[-1, :, 0] = lon_values[0, :]
        c3 == Assign(c2,
            [x \in {y \in DOMAIN c2 : y[3] = 0 /\ y[1] = ni - 1} |->
                lon_values[<<0, x[2]>>]])
        \* corner_lons[:, 1:, 2] = lon_values[:, :-1]
        c4 == Assign(c3,
            [x \in {y \in DOMAIN c3 : y[3] = 2 /\ y[2] >= 1} |->
                lon_values[<<x[1], x[2] - 1>>]])
        \* corner_lons[:, 0, 2] = lon_values[:, 1]
        c5 == Assign(c4,
            [x \in {y \in DOMAIN c4 : y[3] = 2 /\ y[2] = 0} |->
                lon_values[<<x[1], 1>>]])
        \* corner_lons[:-1, 1:, 3] = lon_values[1:, :-1]
        c6 == Assign(c5,
            [x \in {y \in DOMAIN c5 : y[3] = 3 /\ y[1] <= ni - 2 /\ y[2] >= 1} |->
                lon_values[<<x[1] + 1, x[2] - 1>>]])
        \* corner_lons[-1, 1:, 3] = lon_values[0, :-1]
        c7 == Assign(c6,
            [x \in {y \in DOMAIN c6 : y[3] = 3 /\ y[1] = ni - 1 /\ y[2] >= 1} |->
                lon_values[<<0, x[2] - 1>>]])
        \* corner_lons[:, 0, 3] = corner_lons[:, 1, 3]
        c8 == Assign(c7,
            [x \in {y \in DOMAIN c7 : y[3] = 3 /\ y[2] = 0} |->
                c7[<<x[1], 1, 3>>]])
    IN  c8

\* The "v" branch: F-pivot special treatment.
corner_lons_v(lon_values, shp) ==
    LET ni == shp[1]
        nj == shp[2]
        \* rever_lons = lon_values[::-1, -1]
        rever_lons == rever(lon_values, shp)
        c0 == full(shp, MISSING_VALUE)
        \* corner_lons[:, :-1, 0] = lon_values[:, 1:]
        c1 == Assign(c0,
            [x \in {y \in DOMAIN c0 : y[3] = 0 /\ y[2] <= nj - 2} |->
                lon_values[<<x[1], x[2] + 1>>]])
        \* corner_lons[:-1, -1, 0] = rever_lons[1:]
        c2 == Assign(c1,
            [x \in {y \in DOMAIN c1 : y[3] = 0 /\ y[1] <= ni - 2 /\ y[2] = nj - 1} |->
                rever_lons[x[1] + 1]])
        \* corner_lons[-1, -1, 0] = rever_lons[0]
        c3 == Assign(c2,
            [x \in {y \in DOMAIN c2 : y[3] = 0 /\ y[1] = ni - 1 /\ y[2] = nj - 1} |->
                rever_lons[0]])
        \* corner_lons[1:, :-1, 1] = lon_values[:-1, 1:]
        c4 == Assign(c3,
            [x \in {y \in DOMAIN c3 : y[3] = 1 /\ y[1] >= 1 /\ y[2] <= nj - 2} |->
                lon_values[<<x[1] - 1, x[2] + 1>>]])
        \* corner_lons[0, :-1, 1] = lon_values[-1, 1:]
        c5 == Assign(c4,
            [x \in {y \in DOMAIN c4 : y[3] = 1 /\ y[1] = 0 /\ y[2] <= nj - 2} |->
                lon_values[<<ni - 1, x[2] + 1>>]])
        \* corner_lons[:, -1, 1] = rever_lons[:]
        c6 == Assign(c5,
            [x \in {y \in DOMAIN c5 : y[3] = 1 /\ y[2] = nj - 1} |->
                rever_lons[x[1]]])
        \* corner_lons[1:, :, 2] = lon_values[:-1, :]
        c7 == Assign(c6,
            [x \in {y \in DOMAIN c6 : y[3] = 2 /\ y[1] >= 1} |->
                lon_values[<<x[1] - 1, x[2]>>]])
        \* corner_lons[0, :, 2] = lon_values[-1, :]
        c8 == Assign(c7,
            [x \in {y \in DOMAIN c7 : y[3] = 2 /\ y[1] = 0} |->
                lon_values[<<ni - 1, x[2]>>]])
        \* corner_lons[:, :, 3] = lon_values
        c9 == Assign(c8,
            [x \in {y \in DOMAIN c8 : y[3] = 3} |->
                lon_values[<<x[1], x[2]>>]])
    IN  c9

(***************************************************************************)
(* The two methods: the branch is chosen by the subgrid tag.               *)
(***************************************************************************)
\* Variant: the "v" comparison never matches, the array is returned as
\* initialised.
read_corner_latitudes_without_v(sg, lat_values, shp) ==
    CASE sg = "t" -> corner_lats_t(lat_values, shp)
      [] sg = "u" -> corner_lats_u(lat_values, shp)
      [] OTHER -> full(shp, MISSING_VALUE)

\* Variant: the "u" branch copies row 1 at the southern edge, as the
\* longitude branch does, instead of extrapolating.
read_corner_latitudes_copying_u(sg, lat_values, shp) ==
    CASE sg = "t" -> corner_lats_t(lat_values, shp)
      [] sg = "u" -> corner_lons_u(lat_values, shp)
      [] sg = "v" -> corner_lats_v(lat_values, shp)

read_corner_latitudes(sg, lat_values, shp) ==
    CASE sg = "t" -> corner_lats_t(lat_values, shp)
      [] sg = "u" -> corner_lats_u(lat_values, shp)
      [] sg = "v" -> corner_lats_v(lat_values, shp)

\* Variant: the "u" tag runs the statements of the "t" branch.
read_corner_longitudes_u_as_t(sg, lon_values, shp) ==
    CASE sg = "t" -> corner_lons_t(lon_values, shp)
      [] sg = "u" -> corner_lons_t(lon_values, shp)
      [] sg = "v" -> corner_lons_v(lon_values, shp)

read_corner_longitudes(sg, lon_values, shp) ==
    CASE sg = "t" -> corner_lons_t(lon_values, shp)
      [] sg = "u" -> corner_lons_u(lon_values, shp)
      [] sg = "v" -> corner_lons_v(lon_values, shp)

(***************************************************************************)
(* read_mask                                                               *)
(***************************************************************************)
\* Variant: top_level is not among the required variables.
DomainVars_without_top_level ==
              {"glamt", "glamu", "glamv", "glamf",
               "gphit", "gphiu", "gphiv", "gphif",
               "e1t", "e1u", "e1v", "e1f",
               "e2t", "e2u", "e2v", "e2f"}

\* The variables OrcaGrid.__init__ requires of the two datasets.
DomainVars == {"glamt", "glamu", "glamv", "glamf",
               "gphit", "gphiu", "gphiv", "gphif",
               "e1t", "e1u", "e1v", "e1f",
               "e2t", "e2u", "e2v", "e2f", "top_level"}
MaskVars == {"tmaskutil", "umaskutil", "vmaskutil"}

\* Variant: np.where(top_level == 0, 0, 1)
tmask_of_inverted(top_level) ==
    [c \in DOMAIN top_level |-> IF top_level[c] = 0 THEN 0 ELSE 1]

\* np.where(top_level == 0, 1, 0)
tmask_of(top_level) ==
    [c \in DOMAIN top_level |-> IF top_level[c] = 0 THEN 1 ELSE 0]

\* Variant: mode="clip" whatever the mode asked for.
take_index_always_clip(idx, n, mode) ==
    IF idx > n - 1 THEN n - 1 ELSE IF idx < 0 THEN 0 ELSE idx

\* The index ndarray.take reads for index idx on an axis of length n.
take_index(idx, n, mode) ==
    CASE mode = "wrap" -> idx % n
      [] mode = "clip" -> IF idx > n - 1 THEN n - 1 ELSE IF idx < 0 THEN 0 ELSE idx

\* tmask * tmask.take(range(1, tmask.shape[0] + 1), axis=0, mode="wrap")
umask_of(tmask, shp) ==
    [c \in DOMAIN tmask |->
        tmask[c] * tmask[<<take_index(c[1] + 1, shp[1], "wrap"), c[2]>>]]

\* tmask * tmask.take(range(1, tmask.shape[1] + 1), axis=1, mode="clip")
vmask_of(tmask, shp) ==
    [c \in DOMAIN tmask |->
        tmask[c] * tmask[<<c[1], take_index(c[2] + 1, shp[2], "clip")>>]]

\* np.where(maskutil > 0, 0, 1): the branch taken with a masks file.
external_mask(maskutil) ==
    [c \in DOMAIN maskutil |-> IF maskutil[c] > 0 THEN 0 ELSE 1]

\* values is the array read: {subgrid}maskutil with a masks file, top_level
\* without one.
read_mask(sg, msk, values, shp) ==
    IF msk.given
    THEN external_mask(values)
    ELSE CASE sg = "t" -> tmask_of(values)
           [] sg = "u" -> umask_of(tmask_of(values), shp)
           [] sg = "v" -> vmask_of(tmask_of(values), shp)

(***************************************************************************)
(* Spec: the three synthesizing reads of a view, in the order its           *)
(* constructor makes them, on an OrcaGrid of a small shape.                *)
(***************************************************************************)
InitGrid ==
    /\ shape \in Shapes
    /\ size = shape[1] * shape[2]
    /\ name = None
    /\ subgrid \in Subgrids
    /\ data \in Fields(shape)
    /\ masks \in {NoMasks, MasksFile(NemoMasks)}
    /\ corner_lats = Unset
    /\ corner_lons = Unset
    /\ mask = Unset
    /\ nc = [dimensions |-> [x |-> shape[1], y |-> shape[2], z |-> 1],
             variables |-> NemoDomainCfg]
    /\ pc = "read_corner_latitudes"
    /\ self = NewView
    /\ result = <<>>
    /\ error = None
    /\ reads = <<>>

\* self.corner_latitudes = ogrid.read_corner_latitudes(subgrid=...)
ReadCornerLatitudes ==
    /\ pc = "read_corner_latitudes"
    /\ pc' = "read_corner_longitudes"
    /\ corner_lats' = read_corner_latitudes(subgrid, data, shape)
    /\ UNCHANGED <<shape, subgrid, data, corner_lons, mask>>
    /\ UNCHANGED <<size, name, nc, masks, self, result, error, reads>>

\* self.corner_longitudes = ogrid.read_corner_longitudes(subgrid=...)
ReadCornerLongitudes ==
    /\ pc = "read_corner_longitudes"
    /\ pc' = "read_mask"
    /\ corner_lons' = read_corner_longitudes(subgrid, data, shape)
    /\ UNCHANGED <<shape, subgrid, data, corner_lats, mask>>
    /\ UNCHANGED <<size, name, nc, masks, self, result, error, reads>>

\* self.mask = ogrid.read_mask(subgrid=...)
ReadMask ==
    /\ pc = "read_mask"
    /\ pc' = "done"
    /\ mask' = read_mask(subgrid, masks, data, shape)
    /\ UNCHANGED <<shape, subgrid, data, corner_lats, corner_lons>>
    /\ UNCHANGED <<size, name, nc, masks, self, result, error, reads>>

Next == ReadCornerLatitudes \/ ReadCornerLongitudes \/ ReadMask

Spec == InitGrid /\ [][Next]_vars

(***************************************************************************)
(* Properties of the corner arrays (checked under Spec).                   *)
(***************************************************************************)
ni == shape[1]
nj == shape[2]
LatsRead == pc \in {"read_corner_longitudes", "read_mask", "done"}
LonsRead == pc \in {"read_mask", "done"}
MaskRead == pc = "done"

\* i shifted by di on the periodic i-axis.
WrapI(i, di) == (i + di + ni) % ni

\* The (di, dj) source offset of corner k, per subgrid: 0 = NE, 1 = NW,
\* 2 = SW, 3 = SE of the cell's defining point.
Offset(sg, k) ==
    CASE sg = "t" -> <<  <<0, 0>>, <<-1, 0>>, <<-1, -1>>, <<0, -1>>  >>[k + 1]
      [] sg = "u" -> <<  <<1, 0>>, <<0, 0>>, <<0, -1>>, <<1, -1>>  >>[k + 1]
      [] sg = "v" -> <<  <<0, 1>>, <<-1, 1>>, <<-1, 0>>, <<0, 0>>  >>[k + 1]

AllCorners == (0..(ni - 1)) \X (0..(nj - 1)) \X (0..3)

Filled(corner) ==
    /\ DOMAIN corner = AllCorners
    /\ \A x \in AllCorners : corner[x] # MISSING_VALUE

\* C1 (totality): once read_corner_latitudes / read_corner_longitudes has
\* returned, the corner array has all ni*nj*4 entries and none of them is
\* the sentinel the array was initialised with.
Totality ==
    /\ LatsRead => Filled(corner_lats)
    /\ LonsRead => Filled(corner_lons)

TotalityWitness ==
    /\ pc = "done"
    /\ subgrid = "v"
    /\ Cardinality(DOMAIN corner_lats) = ni * nj * 4
    /\ Cardinality(DOMAIN corner_lons) = ni * nj * 4

Interior(corner) ==
    \A x \in AllCorners :
        LET d == Offset(subgrid, x[3])
        IN  (x[2] + d[2] \in 0..(nj - 1)) =>
                corner[x] = data[<<WrapI(x[1], d[1]), x[2] + d[2]>>]

\* C2 (interior rule, zonal periodicity, winding order): wherever the source
\* row j+dj exists, corner k of cell (i, j) is the source value at column
\* (i+di) mod ni and row j+dj, with (di, dj) the NE/NW/SW/SE offsets of
\* Offset, for latitude and longitude.
InteriorRule ==
    /\ LatsRead => Interior(corner_lats)
    /\ LonsRead => Interior(corner_lons)

\* A wrapped column is read: the source differs between the two edge columns.
InteriorRuleWitness ==
    /\ pc = "done"
    /\ subgrid = "u"
    /\ data[<<0, 0>>] # data[<<ni - 1, 0>>]
    /\ corner_lats[<<ni - 1, 0, 0>>] = data[<<0, 0>>]
    /\ corner_lons[<<ni - 1, 1, 3>>] = data[<<0, 0>>]

North(corner, i, k) == corner[<<i, nj - 1, k>>]

SameIndexSymmetric(corner) ==
    \A i \in 0..(ni - 1), k \in {0, 1} :
        North(corner, i, k) = North(corner, ni - 1 - i, k)

\* C3 as stated (fold symmetry): for the V subgrid and any source array the
\* northern corners 0 and 1 of the last row are the same at column i and at
\* column ni-1-i.
FoldSymmetryAsStated ==
    subgrid = "v" =>
        /\ LatsRead => SameIndexSymmetric(corner_lats)
        /\ LonsRead => SameIndexSymmetric(corner_lons)

FoldMirror(corner) ==
    \A i \in 0..(ni - 1) :
        /\ North(corner, i, 0) = North(corner, ni - 1 - i, 2)
        /\ North(corner, i, 1) = North(corner, ni - 1 - i, 3)

\* C3 amended: for the V subgrid and any source array, the northern edge of
\* the last-row cell at column i is the southern edge of the cell at column
\* ni-1-i, mirrored: corner 0 equals corner 2 there and corner 1 equals
\* corner 3 there, exactly, for latitude and longitude.
FoldSymmetry ==
    subgrid = "v" =>
        /\ LatsRead => FoldMirror(corner_lats)
        /\ LonsRead => FoldMirror(corner_lons)

\* The last source row is not its own mirror image, and both arrays are read.
FoldSymmetryWitness ==
    /\ pc = "done"
    /\ subgrid = "v"
    /\ \E i \in 0..(ni - 1) :
          /\ data[<<i, nj - 1>>] # data[<<ni - 1 - i, nj - 1>>]
          /\ North(corner_lats, i, 1) = North(corner_lons, ni - 1 - i, 3)
          /\ North(corner_lats, i, 1) # North(corner_lats, i, 3)

Folded(corner) ==
    \A i \in 0..(ni - 1) :
        /\ North(corner, i, 1) = data[<<ni - 1 - i, nj - 1>>]
        /\ North(corner, i, 0) = data[<<ni - 1 - ((i + 1) % ni), nj - 1>>]

\* Every value of the corner array comes from the column the interior rule
\* gives that corner: it is a value of that column or the extrapolation of
\* its rows 1 and 2.
ColumnLocal(corner) ==
    \A x \in AllCorners :
        LET c == WrapI(x[1], Offset(subgrid, x[3])[1])
        IN  corner[x] \in { data[<<c, r>>] : r \in 0..(nj - 1) }
                             \cup { 2 * data[<<c, 1>>] - data[<<c, 2>>] }

\* C8 (tripolar fold rule): for the V subgrid the northern corners of the
\* last row are the last source row read in reverse i-order,
\* corner[i, nj-1, 1] = source[ni-1-i, nj-1] and
\* corner[i, nj-1, 0] = source[ni-1-((i+1) mod ni), nj-1], for latitude and
\* longitude; for T and U no corner is read from another column than the
\* zonally wrapped one of the interior rule.
FoldRule ==
    /\ (subgrid = "v" /\ LatsRead) => Folded(corner_lats)
    /\ (subgrid = "v" /\ LonsRead) => Folded(corner_lons)
    /\ (subgrid # "v" /\ LatsRead) => ColumnLocal(corner_lats)
    /\ (subgrid # "v" /\ LonsRead) => ColumnLocal(corner_lons)

\* The fold has moved a value of the last row to the opposite column.
FoldRuleWitness ==
    /\ pc = "done"
    /\ subgrid = "v"
    /\ data[<<0, nj - 1>>] # 0
    /\ data[<<ni - 1, nj - 1>>] = 0
    /\ North(corner_lats, ni - 1, 1) # 0
    /\ North(corner_lons, ni - 1, 0) = 0

\* The source column of a southern corner k of the T and U subgrids.
SouthColumn(sg, i, k) ==
    CASE sg = "t" /\ k = 3 -> i
      [] sg = "t" /\ k = 2 -> (i + ni - 1) % ni
      [] sg = "u" /\ k = 2 -> i
      [] sg = "u" /\ k = 3 -> (i + 1) % ni

\* C9 (southern-edge latitude rule): for the T and U subgrids the southern
\* corners k = 2, 3 of row j = 0 have latitude 2*source[c, 1] - source[c, 2]
\* with c the zonally wrapped column SouthColumn.
SouthernEdgeLatitude ==
    (subgrid \in {"t", "u"} /\ LatsRead) =>
        \A i \in 0..(ni - 1), k \in {2, 3} :
            LET c == SouthColumn(subgrid, i, k)
            IN  corner_lats[<<i, 0, k>>]
                    = 2 * data[<<c, 1>>] - data[<<c, 2>>]

\* An extrapolated latitude that is no value of the source, at a wrapped
\* column of the U subgrid.
SouthernEdgeLatitudeWitness ==
    /\ LatsRead
    /\ subgrid = "u"
    /\ data[<<0, 1>>] > data[<<0, 2>>]
    /\ corner_lats[<<ni - 1, 0, 3>>] = 2 * data[<<0, 1>>] - data[<<0, 2>>]
    /\ corner_lats[<<ni - 1, 0, 3>>] > data[<<0, 1>>]

\* C10 as stated (missing-edge longitude rule): for the T and U subgrids the
\* longitude corners k = 2, 3 of row j = 0 are copies of source values at the
\* zonally wrapped column of the corner, all taken from one and the same
\* source row.
SouthernEdgeLongitude ==
    (subgrid \in {"t", "u"} /\ LonsRead) =>
        \E r \in 0..(nj - 1) :
            \A i \in 0..(ni - 1), k \in {2, 3} :
                corner_lons[<<i, 0, k>>]
                    = data[<<SouthColumn(subgrid, i, k), r>>]

(***************************************************************************)
(* Properties of the masks on the path without a masks file (under Spec).  *)
(***************************************************************************)
NoMaskPath == MaskRead /\ ~masks.given

\* The T mask of the dataset: 1 exactly where top_level is 0.
t_mask(i, j) == IF data[<<i, j>>] = 0 THEN 1 ELSE 0

East(i) == (i + 1) % ni
NorthClamped(j) == IF j + 1 <= nj - 1 THEN j + 1 ELSE nj - 1

MaskDerivation ==
    NoMaskPath =>
        /\ DOMAIN mask = Cells(shape)
        /\ \A c \in Cells(shape) :
              /\ mask[c] \in {0, 1}
              /\ subgrid = "t" => mask[c] = t_mask(c[1], c[2])
              /\ subgrid = "u" =>
                    mask[c] = t_mask(c[1], c[2]) * t_mask(East(c[1]), c[2])
              /\ subgrid = "v" =>
                    mask[c] = t_mask(c[1], c[2])
                                * t_mask(c[1], NorthClamped(c[2]))

\* A U point on the east edge whose own T point is masked and whose wrapped
\* east neighbour is not: the product leaves it unmasked.
MaskDerivationWitness ==
    /\ NoMaskPath
    /\ subgrid = "u"
    /\ t_mask(ni - 1, 0) = 1
    /\ t_mask(0, 0) = 0
    /\ mask[<<ni - 1, 0>>] = 0
    /\ mask[<<ni - 1, 1>>] = 1

AllZero == \A c \in Cells(shape) : data[c] = 0

\* C6 as stated (scenario B): without a masks file, a top_level that is 0 at
\* every cell yields a mask that is 0 at every cell.
AllZeroGivesZeroMask ==
    (NoMaskPath /\ AllZero) => \A c \in Cells(shape) : mask[c] = 0

\* C6 amended: without a masks file, a top_level that is 0 at every cell
\* yields a mask that is 1 at every cell, for each of the T, U and V
\* subgrids.
AllZeroGivesFullMask ==
    (NoMaskPath /\ AllZero) => \A c \in Cells(shape) : mask[c] = 1

AllZeroWitness ==
    /\ NoMaskPath
    /\ AllZero
    /\ subgrid = "v"
    /\ mask[<<0, nj - 1>>] = 1

(***************************************************************************)
(* SpecView: constructing OrcaTGrid / OrcaUGrid / OrcaVGrid, statement by  *)
(* statement.  subgrid is the tag of the class under construction.  An     *)
(* array is represented by the name of the dataset variable it was read    *)
(* from.                                                                   *)
(***************************************************************************)
\* _orca_names
orca_names ==
    (<<362, 292, 75>> :> "ORCA1L75") @@ (<<360, 331, 75>> :> "eORCA1L75")

MissingDimensions == "RuntimeError: Missing dimensions in NEMO domain config"
UnknownDimensions == "RuntimeError: Unknown dimensions in NEMO domain config"
MissingVariables == "RuntimeError: Missing variables in NEMO domain config"
MissingMaskVariables == "RuntimeError: Missing variables in NEMO masks file"
KeyError == "KeyError"

\* OrcaGrid.__init__: the attributes it has set and the exception it raised
\* (None when it returned).
OrcaGrid_init(cfg, msk) ==
    LET dims == cfg.dimensions
        none == [shape |-> <<>>, size |-> 0, name |-> None, error |-> None]
    IN  IF ~({"x", "y", "z"} \subseteq DOMAIN dims)
        THEN [none EXCEPT !.error = MissingDimensions]
        ELSE LET sized == [none EXCEPT !.shape = <<dims.x, dims.y>>,
                                       !.size = dims.x * dims.y]
                 key == <<dims.x, dims.y, dims.z>>
             IN  IF key \notin DOMAIN orca_names
                 THEN [sized EXCEPT !.error = UnknownDimensions]
                 ELSE LET named == [sized EXCEPT !.name = orca_names[key]]
                      IN  IF ~(DomainVars \subseteq cfg.variables)
                          THEN [named EXCEPT !.error = MissingVariables]
                          ELSE IF msk.given
                                    /\ ~(MaskVars \subseteq msk.variables)
                               THEN [named EXCEPT !.error = MissingMaskVariables]
                               ELSE named

\* The dataset variable each reader indexes, by subgrid tag.
gphi == [t |-> "gphit", u |-> "gphiu", v |-> "gphiv"]
glam == [t |-> "glamt", u |-> "glamu", v |-> "glamv"]
lat_var == [t |-> "gphif", u |-> "gphiv", v |-> "gphiu"]
lon_var == [t |-> "glamf", u |-> "glamv", v |-> "glamu"]
e1 == [t |-> "e1t", u |-> "e1u", v |-> "e1v"]
e2 == [t |-> "e2t", u |-> "e2u", v |-> "e2v"]
maskutil == [t |-> "tmaskutil", u |-> "umaskutil", v |-> "vmaskutil"]

\* The variables of names (read in this order) that are read before the
\* first one the file lacks.
ReadPrefix(names, have) ==
    LET firstMissing ==
            IF \E n \in 1..Len(names) : names[n] \notin have
            THEN CHOOSE n \in 1..Len(names) :
                    /\ names[n] \notin have
                    /\ \A m \in 1..(n - 1) : names[m] \in have
            ELSE Len(names) + 1
    IN  SubSeq(names, 1, firstMissing - 1)

\* self.<attr> = ogrid.read_...(subgrid=...): the reader indexes the
\* variables names of a file holding the variables have; a variable the file
\* lacks raises KeyError, which the constructor does not catch.
ReadInto(attr, nxt, names, have) ==
    /\ pc = attr
    /\ reads' = reads \o ReadPrefix(names, have)
    /\ IF \A n \in 1..Len(names) : names[n] \in have
       THEN /\ self' = [self EXCEPT ![attr] = names[1]]
            /\ pc' = nxt
            /\ error' = error
       ELSE /\ self' = self
            /\ pc' = "raised"
            /\ error' = KeyError
    /\ UNCHANGED <<shape, size, name, subgrid, data, corner_lats, corner_lons,
                   mask, nc, masks, result>>

\* The datasets a view may be constructed on.
Triples == DOMAIN orca_names \cup {<<362, 292, 31>>, <<4, 3, 1>>}
Lacking(all) ==
    { all \ M : M \in { S \in SUBSET all : Cardinality(S) <= MaxMissing } }

InitView ==
    /\ subgrid \in Subgrids
    /\ \E triple \in Triples, D \in SUBSET {"x", "y", "z"} :
          \E vs \in Lacking(NemoDomainCfg) :
              nc = [dimensions |->
                        [d \in D |-> CASE d = "x" -> triple[1]
                                       [] d = "y" -> triple[2]
                                       [] d = "z" -> triple[3]],
                    variables |-> vs]
    /\ masks \in {NoMasks} \cup { MasksFile(vs) : vs \in Lacking(NemoMasks) }
    /\ pc = "OrcaGrid"
    /\ shape = <<>>
    /\ size = 0
    /\ name = None
    /\ self = NewView
    /\ result = <<>>
    /\ error = None
    /\ reads = <<>>
    /\ data = Unset
    /\ corner_lats = Unset
    /\ corner_lons = Unset
    /\ mask = Unset

\* ogrid = OrcaGrid(domain_cfg=domain_cfg, masks=masks)
ConstructOrcaGrid ==
    /\ pc = "OrcaGrid"
    /\ LET made == OrcaGrid_init(nc, masks)
       IN  /\ shape' = made.shape
           /\ size' = made.size
           /\ name' = made.name
           /\ error' = made.error
           /\ pc' = IF made.error = None THEN "name" ELSE "raised"
    /\ UNCHANGED <<subgrid, data, corner_lats, corner_lons, mask, nc, masks,
                   self, result, reads>>

\* self.name = ogrid.name; self.shape = ogrid.shape; self.size = ogrid.size
CopyIdentity ==
    /\ pc = "name"
    /\ self' = [self EXCEPT !.name = name, !.shape = shape, !.size = size]
    /\ pc' = "center_latitudes"
    /\ UNCHANGED <<shape, size, name, subgrid, data, corner_lats, corner_lons,
                   mask, nc, masks, result, error, reads>>

SetCenterLatitudes ==
    ReadInto("center_latitudes", "center_longitudes",
             <<gphi[subgrid]>>, nc.variables)

SetCenterLongitudes ==
    ReadInto("center_longitudes", "corner_latitudes",
             <<glam[subgrid]>>, nc.variables)

SetCornerLatitudes ==
    ReadInto("corner_latitudes", "corner_longitudes",
             <<lat_var[subgrid]>>, nc.variables)

SetCornerLongitudes ==
    ReadInto("corner_longitudes", "areas",
             <<lon_var[subgrid]>>, nc.variables)

SetAreas ==
    ReadInto("areas", "mask", <<e1[subgrid], e2[subgrid]>>, nc.variables)

\* read_mask: "if self.masks" chooses the file and the variable.
SetMask ==
    IF masks.given
    THEN ReadInto("mask", "return", <<maskutil[subgrid]>>, masks.variables)
    ELSE ReadInto("mask", "return", <<"top_level">>, nc.variables)

\* The constructor returns: the caller holds the view.
Return ==
    /\ pc = "return"
    /\ result' = <<self>>
    /\ pc' = "returned"
    /\ UNCHANGED <<shape, size, name, subgrid, data, corner_lats, corner_lons,
                   mask, nc, masks, self, error, reads>>

NextView ==
    \/ ConstructOrcaGrid
    \/ CopyIdentity
    \/ SetCenterLatitudes
    \/ SetCenterLongitudes
    \/ SetCornerLatitudes
    \/ SetCornerLongitudes
    \/ SetAreas
    \/ SetMask
    \/ Return

SpecView == InitView /\ [][NextView]_vars

(***************************************************************************)
(* Properties of the construction of a view (checked under SpecView).      *)
(***************************************************************************)
HasDimensions == {"x", "y", "z"} \subseteq DOMAIN nc.dimensions
Registered ==
    <<nc.dimensions.x, nc.dimensions.y, nc.dimensions.z>> \in DOMAIN orca_names

\* The exception the first failing validation of the dataset raises.
FirstFailure ==
    CASE ~HasDimensions -> MissingDimensions
      [] HasDimensions /\ ~Registered -> UnknownDimensions
      [] HasDimensions /\ Registered
            /\ ~(DomainVars \subseteq nc.variables) -> MissingVariables
      [] OTHER -> MissingMaskVariables

BadDataset ==
    \/ ~HasDimensions
    \/ ~Registered
    \/ ~(DomainVars \subseteq nc.variables)
    \/ masks.given /\ ~(MaskVars \subseteq masks.variables)

Complete(view) ==
    /\ view.name \in {"ORCA1L75", "eORCA1L75"}
    /\ view.shape = <<nc.dimensions.x, nc.dimensions.y>>
    /\ view.size = nc.dimensions.x * nc.dimensions.y
    /\ \A attr \in {"center_latitudes", "center_longitudes",
                    "corner_latitudes", "corner_longitudes", "areas", "mask"} :
          view[attr] # None

\* C7 (fail closed, no partial bundle): on a dataset that lacks a dimension
\* or a required variable, or whose (ni, nj, nk) is not registered, the
\* construction raises the RuntimeError of the first failing validation
\* before any array is read and returns nothing; in every run the caller
\* holds either nothing or a view with every attribute set, and never both
\* a view and an exception.
FailClosed ==
    /\ BadDataset =>
          /\ reads = <<>>
          /\ result = <<>>
          /\ pc \in {"OrcaGrid", "raised"}
          /\ pc = "raised" => error = FirstFailure
    /\ result # <<>> =>
          /\ Len(result) = 1
          /\ Complete(result[1])
          /\ error = None
    /\ error # None => pc = "raised" /\ result = <<>> /\ reads = <<>>
    /\ pc = "returned" => result = <<self>>

\* An unregistered triple on an otherwise valid dataset has raised.
FailClosedWitness ==
    /\ pc = "raised"
    /\ HasDimensions
    /\ ~Registered
    /\ DomainVars \subseteq nc.variables
    /\ error = UnknownDimensions
    /\ shape = <<nc.dimensions.x, nc.dimensions.y>>
    /\ self = NewView

====
